---------------------------- MODULE Spec2Model ----------------------------
(***************************************************************************)
(* Blockchain diary (src/app.py): hash-linked blocks, proof-of-work        *)
(* mining with a bounded primary phase and an unbounded relaxed fallback,  *)
(* the genesis factory, the chain validator and the "Add" handler of the   *)
(* Streamlit script.                                                       *)
(*                                                                         *)
(* Strings are sequences of one-character strings.  A digest is a string   *)
(* of HashLen characters over "0" and "1" (SHA-256 gives 64 hexadecimal    *)
(* characters); the character "0" is the one the difficulty counts.        *)
(***************************************************************************)
EXTENDS Integers, Sequences, FiniteSets, TLC

(* ------------------------------ bounds -------------------------------- *)
\* length of a digest string (64 in the code)
HashLen == 7
\* mine's default max_iters (5_000_000 in the code), scaled down
MaxIters == 3
\* the timestamp refresh period (100_000 in the code), scaled down
RefreshEvery == 2
\* the wall clock reads 0..MaxTime
MaxTime == 1
\* the chain is not grown beyond this many blocks
MaxBlocks == 3

(* ------------------------- program constants -------------------------- *)
DIFFICULTY_ZEROS == 3
GenesisZeros == 2
MinDz == 1
MaxDz == 6

(* ------------------------------ strings ------------------------------- *)
Max(a, b) == IF a >= b THEN a ELSE b

RECURSIVE Pow2(_)
Pow2(n) == IF n <= 0 THEN 1 ELSE 2 * Pow2(n - 1)

\* the place values of a digest's characters, most significant first
PlaceValues == [i \in 1..HashLen |-> Pow2(HashLen - i)]

\* number of distinct digests
HashSpace == Pow2(HashLen)

\* "0" * n
Repeat0(n) == [i \in 1..Max(n, 0) |-> "0"]

\* s.startswith(t)
StartsWith(s, t) == Len(t) <= Len(s) /\ SubSeq(s, 1, Len(t)) = t

RECURSIVE lstrip(_)
lstrip(s) == IF s # <<>> /\ Head(s) = " " THEN lstrip(Tail(s)) ELSE s

RECURSIVE rstrip(_)
rstrip(s) ==
    IF s # <<>> /\ s[Len(s)] = " " THEN rstrip(SubSeq(s, 1, Len(s) - 1)) ELSE s

\* str.strip()
strip(s) == rstrip(lstrip(s))

Str_system == <<"s", "y", "s", "t", "e", "m">>
Str_genesis == <<"g", "e", "n", "e", "s", "i", "s">>
Str_Student == <<"S", "t", "u", "d", "e", "n", "t">>

(* ------------------------------ hashing ------------------------------- *)
Alphabet ==
    <<" ", "a", "b", "A", "S", "t", "u", "d", "e", "n", "s", "y", "m", "g", "i">>

\* the code of a character: its position in the alphabet
CharCodes == [c \in {Alphabet[k] : k \in 1..Len(Alphabet)} |->
                 CHOOSE k \in 1..Len(Alphabet) : Alphabet[k] = c]

CharCode(c) == CharCodes[c]

\* the bytes of a string, folded into a number
RECURSIVE StrCode(_)
StrCode(s) ==
    IF s = <<>> THEN 1
    ELSE (CharCode(Head(s)) + 17 * StrCode(Tail(s))) % HashSpace

\* a digest string read as a number, most significant character first
RECURSIVE HexValUpTo(_, _)
HexValUpTo(s, n) ==
    IF n = 0 THEN 0
    ELSE 2 * HexValUpTo(s, n - 1) + (IF s[n] = "0" THEN 0 ELSE 1)

HexVal(s) == HexValUpTo(s, Len(s))

\* hexdigest(): the number v written as HashLen characters
ToHex(v) ==
    [i \in 1..HashLen |->
        IF (v \div PlaceValues[i]) % 2 = 0 THEN "0" ELSE "1"]

\* sha256_hex of the canonical JSON of the five fields: a fixed mixing
\* function of all of them, a bijection in the nonce over any HashSpace
\* consecutive nonces
EntryCode(e) == (StrCode(e.author) + 3 * StrCode(e.text) + 5 * e.ts) % HashSpace

header_hash(index, ts, prev, nonce, entry) ==
    ToHex((41 + 29 * index + 11 * ts + 13 * HexVal(prev) + 37 * nonce
              + 7 * EntryCode(entry)) % HashSpace)

Block(index, ts, prev, entry, nonce) ==
    [index |-> index, ts |-> ts, prev |-> prev, entry |-> entry, nonce |-> nonce]

\* Block.hash(): recomputed from the current fields on every call
Hash(b) == header_hash(b.index, b.ts, b.prev, b.nonce, b.entry)

\* "0" * 64
Sentinel == Repeat0(HashLen)

(* ----------------------------- validator ------------------------------ *)
\* mutant: the linkage test of the later blocks left out
BlockOkNoLink(c, i) ==
    IF i = 1
    THEN c[i].prev = Sentinel /\ StartsWith(Hash(c[i]), Repeat0(2))
    ELSE StartsWith(Hash(c[i]), Repeat0(DIFFICULTY_ZEROS))

\* the body of valid_chain's loop for the block at (1-based) position i
BlockOk(c, i) ==
    IF i = 1
    THEN c[i].prev = Sentinel /\ StartsWith(Hash(c[i]), Repeat0(2))
    ELSE c[i].prev = Hash(c[i - 1])
         /\ StartsWith(Hash(c[i]), Repeat0(DIFFICULTY_ZEROS))

valid_chain(c) == c # <<>> /\ \A i \in 1..Len(c) : BlockOk(c, i)

(* ------------------------------- state -------------------------------- *)
VARIABLES
    chain,      \* st.session_state.chain
    clock,      \* the last value time.time() returned
    pc,         \* where the script is
    blk,        \* the candidate block (g in make_genesis, blk in the handler)
    zeros,      \* mine's argument
    max_iters,  \* mine's argument
    iters,      \* mine's local
    target,     \* mine's local
    h,          \* mine's local, the value it returns
    prev_hash,  \* the handler's local
    msg,        \* the message the run shows
    ok,         \* the "Chain valid" metric
    sealed,     \* per block: the zeros it was mined with and the phase that accepted it
    call        \* the candidate as it was passed to mine

vars == <<chain, clock, pc, blk, zeros, max_iters, iters, target, h,
          prev_hash, msg, ok, sealed, call>>


(* ------------------------------ inputs -------------------------------- *)
\* what the user may type into the "Today's entry" text area
Texts == {<<>>, <<" ", " ">>, <<" ", "a">>}

\* what the "Name/ID" field may hold: its default value, or nothing
Authors == {Str_Student, <<>>}

Difficulties == MinDz..MaxDz

(* ------------------------------- mine --------------------------------- *)
\* the nonce is not followed beyond this value: more than every clock value
\* times every digest
MaxNonce == (MaxTime + 2) * HashSpace

\* mutant: the primary target one character short
PrimaryTargetShort(z) == Repeat0(z - 1)

\* target = "0" * zeros
PrimaryTarget(z) == Repeat0(z)

\* mutant: the relaxed target without its floor of 1
FallbackTargetNoFloor(z) == Repeat0(z - 1)

\* target = "0" * max(zeros - 1, 1)
FallbackTarget(z) == Repeat0(Max(z - 1, 1))

\* mutant: the refresh also restamps the entry
RefreshedWithEntry(b, t) == [b EXCEPT !.ts = t, !.entry.ts = t]

\* block.ts = int(time.time())
Refreshed(b, t) == [b EXCEPT !.ts = t]

\* mutant: the refresh tested on the nonce before its increment
BumpedEarly(b, t) ==
    LET b1 == [b EXCEPT !.nonce = b.nonce + 1]
    IN  IF b.nonce % RefreshEvery = 0 THEN Refreshed(b1, t) ELSE b1

\* block.nonce += 1, then the timestamp refresh when the nonce is a multiple
\* of the refresh period; t is what time.time() returns
Bumped(b, t) ==
    LET b1 == [b EXCEPT !.nonce = b.nonce + 1]
    IN  IF b1.nonce % RefreshEvery = 0 THEN Refreshed(b1, t) ELSE b1

\* what time.time() may return in the miss step: it is read only when the
\* refresh happens
Readings(b) ==
    IF (b.nonce + 1) % RefreshEvery = 0 THEN clock..MaxTime ELSE {clock}

\* mutant: the search starts at the nonce the candidate arrives with
MineEnterKeepNonce ==
    /\ pc = "call"
    /\ target' = PrimaryTarget(zeros)
    /\ iters' = 0
    /\ blk' = blk
    /\ pc' = "primary"
    /\ UNCHANGED <<chain, clock, zeros, max_iters, h, prev_hash, msg, ok,
                   sealed, call>>

\* lines 32-34
MineEnter ==
    /\ pc = "call"
    /\ target' = PrimaryTarget(zeros)
    /\ iters' = 0
    /\ blk' = [blk EXCEPT !.nonce = 0]
    /\ pc' = "primary"
    /\ UNCHANGED <<chain, clock, zeros, max_iters, h, prev_hash, msg, ok,
                   sealed, call>>

\* lines 35-38: the primary loop finds a hash that starts with the target
PrimaryHit ==
    /\ pc = "primary"
    /\ iters < max_iters
    /\ StartsWith(Hash(blk), target)
    /\ h' = Hash(blk)
    /\ pc' = "return_primary"
    /\ UNCHANGED <<chain, clock, blk, zeros, max_iters, iters, target,
                   prev_hash, msg, ok, sealed, call>>

\* lines 35-42: the primary loop misses and moves to the next nonce
PrimaryMiss ==
    /\ pc = "primary"
    /\ iters < max_iters
    /\ ~StartsWith(Hash(blk), target)
    /\ h' = Hash(blk)
    /\ \E t \in Readings(blk) :
          /\ blk' = Bumped(blk, t)
          /\ clock' = t
    /\ iters' = iters + 1
    /\ UNCHANGED <<chain, pc, zeros, max_iters, target, prev_hash, msg, ok,
                   sealed, call>>

\* mutant: the fallback phase starts again at nonce 0
PrimaryExhaustedReset ==
    /\ pc = "primary"
    /\ ~(iters < max_iters)
    /\ target' = FallbackTarget(zeros)
    /\ blk' = [blk EXCEPT !.nonce = 0]
    /\ pc' = "fallback"
    /\ UNCHANGED <<chain, clock, zeros, max_iters, iters, h,
                   prev_hash, msg, ok, sealed, call>>

\* lines 35, 43: the budget is spent, the target is relaxed
PrimaryExhausted ==
    /\ pc = "primary"
    /\ ~(iters < max_iters)
    /\ target' = FallbackTarget(zeros)
    /\ pc' = "fallback"
    /\ UNCHANGED <<chain, clock, blk, zeros, max_iters, iters, h,
                   prev_hash, msg, ok, sealed, call>>

\* mutant: the fallback phase returns the hash it computed one attempt before
FallbackHitStale ==
    /\ pc = "fallback"
    /\ StartsWith(Hash(blk), target)
    /\ pc' = "return_fallback"
    /\ UNCHANGED <<chain, clock, blk, zeros, max_iters, iters, target, h,
                   prev_hash, msg, ok, sealed, call>>

\* lines 44-47
FallbackHit ==
    /\ pc = "fallback"
    /\ StartsWith(Hash(blk), target)
    /\ h' = Hash(blk)
    /\ pc' = "return_fallback"
    /\ UNCHANGED <<chain, clock, blk, zeros, max_iters, iters, target,
                   prev_hash, msg, ok, sealed, call>>

\* lines 44-50
FallbackMiss ==
    /\ pc = "fallback"
    /\ ~StartsWith(Hash(blk), target)
    /\ blk.nonce < MaxNonce
    /\ h' = Hash(blk)
    /\ \E t \in Readings(blk) :
          /\ blk' = Bumped(blk, t)
          /\ clock' = t
    /\ UNCHANGED <<chain, pc, zeros, max_iters, iters, target, prev_hash,
                   msg, ok, sealed, call>>

Returned == pc \in {"return_primary", "return_fallback"}

MineNext ==
    \/ MineEnter
    \/ PrimaryHit
    \/ PrimaryMiss
    \/ PrimaryExhausted
    \/ FallbackHit
    \/ FallbackMiss

(* --------------------------- genesis factory -------------------------- *)
\* mutant: the genesis target one character short
GenesisTargetOne == Repeat0(GenesisZeros - 1)

\* target = "0" * 2
GenesisTarget == Repeat0(GenesisZeros)

\* lines 53-54: ts is read before the entry's ts
GenesisCandidate(t1, t2) ==
    Block(0, t1, Sentinel, [author |-> Str_system, text |-> Str_genesis, ts |-> t2], 0)

\* lines 57-58 and 139: make_genesis returns and the chain is created
GenesisHit ==
    /\ pc = "genesis"
    /\ StartsWith(Hash(blk), GenesisTarget)
    /\ chain' = <<blk>>
    /\ sealed' = <<[zeros |-> GenesisZeros, phase |-> "genesis"]>>
    /\ ok' = valid_chain(chain')
    /\ pc' = "idle"
    /\ UNCHANGED <<clock, blk, zeros, max_iters, iters, target, h,
                   prev_hash, msg, call>>

\* lines 57, 59
GenesisMiss ==
    /\ pc = "genesis"
    /\ ~StartsWith(Hash(blk), GenesisTarget)
    /\ blk' = [blk EXCEPT !.nonce = blk.nonce + 1]
    /\ UNCHANGED <<chain, clock, pc, zeros, max_iters, iters, target, h,
                   prev_hash, msg, ok, sealed, call>>

(* ------------------------------ the script ---------------------------- *)
\* mutant: the validator drops the blocks after the first when it rejects
ValidateClickDropping ==
    /\ pc = "idle"
    /\ msg' = IF valid_chain(chain) THEN "valid" ELSE "invalid"
    /\ ok' = valid_chain(chain)
    /\ chain' = IF valid_chain(chain) THEN chain ELSE SubSeq(chain, 1, 1)
    /\ UNCHANGED <<clock, pc, blk, zeros, max_iters, iters, target, h,
                   prev_hash, sealed, call>>

\* lines 147-148: "Validate chain"
ValidateClick ==
    /\ pc = "idle"
    /\ msg' = IF valid_chain(chain) THEN "valid" ELSE "invalid"
    /\ ok' = valid_chain(chain)
    /\ UNCHANGED <<chain, clock, pc, blk, zeros, max_iters, iters, target, h,
                   prev_hash, sealed, call>>

\* mutant: the text tested without strip()
TextAcceptedRaw(text) == text # <<>>

\* line 155: if text.strip()
TextAccepted(text) == strip(text) # <<>>

\* mutant: the hash of the first block instead of the last
TipHashFirst(c) == Hash(c[1])

\* line 156: prev_hash = chain[-1].hash()
TipHash(c) == Hash(c[Len(c)])

\* line 157
NewEntry(author, text, t) ==
    [author |-> strip(IF author # <<>> THEN author ELSE Str_Student),
     text |-> strip(text), ts |-> t]

\* mutant: the index one too high
NewBlockIndexOff(c, ph, entry, t) == Block(Len(c) + 1, t, ph, entry, 0)

\* line 158
NewBlock(c, ph, entry, t) == Block(Len(c), t, ph, entry, 0)

\* lines 146, 154-159: "Add" with a text that is accepted, up to the call of
\* mine; d is the difficulty the sidebar holds in this run
AddAccepted(d, author, text) ==
    /\ pc = "idle"
    /\ Len(chain) < MaxBlocks
    /\ TextAccepted(text)
    /\ prev_hash' = TipHash(chain)
    /\ \E t1 \in clock..MaxTime : \E t2 \in t1..MaxTime :
          /\ blk' = NewBlock(chain, prev_hash', NewEntry(author, text, t1), t2)
          /\ clock' = t2
    /\ call' = blk'
    /\ zeros' = d
    /\ max_iters' = MaxIters
    /\ msg' = "none"
    /\ pc' = "call"
    /\ UNCHANGED <<chain, iters, target, h, ok, sealed>>

\* lines 154-155, 163-164: "Add" with a text that is rejected
AddRejected(text) ==
    /\ pc = "idle"
    /\ ~TextAccepted(text)
    /\ msg' = "error"
    /\ ok' = valid_chain(chain)
    /\ UNCHANGED <<chain, clock, pc, blk, zeros, max_iters, iters, target, h,
                   prev_hash, sealed, call>>

\* mutant: the new block is written over the tip
AppendBlockOverTip ==
    /\ Returned
    /\ chain # <<>>
    /\ chain' = Append(SubSeq(chain, 1, Len(chain) - 1), blk)
    /\ sealed' = Append(SubSeq(sealed, 1, Len(sealed) - 1),
                   [zeros |-> zeros,
                    phase |-> IF pc = "return_primary" THEN "primary" ELSE "fallback"])
    /\ msg' = "added"
    /\ ok' = valid_chain(chain')
    /\ pc' = "idle"
    /\ UNCHANGED <<clock, blk, zeros, max_iters, iters, target, h,
                   prev_hash, call>>

\* lines 160-161 and 166: mine has returned; the block is appended and the
\* rest of the script runs
AppendBlock ==
    /\ Returned
    /\ chain # <<>>
    /\ chain' = Append(chain, blk)
    /\ sealed' = Append(sealed,
                   [zeros |-> zeros,
                    phase |-> IF pc = "return_primary" THEN "primary" ELSE "fallback"])
    /\ msg' = "added"
    /\ ok' = valid_chain(chain')
    /\ pc' = "idle"
    /\ UNCHANGED <<clock, blk, zeros, max_iters, iters, target, h,
                   prev_hash, call>>

(* --------------------------- specifications --------------------------- *)
\* the session: the first run of the script starts make_genesis
Init ==
    /\ chain = <<>>
    /\ sealed = <<>>
    /\ pc = "genesis"
    /\ \E t1 \in 0..MaxTime : \E t2 \in t1..MaxTime :
          /\ blk = GenesisCandidate(t1, t2)
          /\ clock = t2
    /\ call = blk
    /\ zeros = 0
    /\ max_iters = 0
    /\ iters = 0
    /\ target = <<>>
    /\ h = <<>>
    /\ prev_hash = <<>>
    /\ msg = "none"
    /\ ok = FALSE

Next ==
    \/ GenesisHit
    \/ GenesisMiss
    \/ ValidateClick
    \/ \E d \in Difficulties : \E a \in Authors : \E t \in Texts :
          AddAccepted(d, a, t)
    \/ \E t \in Texts : AddRejected(t)
    \/ MineEnter
    \/ PrimaryHit
    \/ PrimaryMiss
    \/ PrimaryExhausted
    \/ FallbackHit
    \/ FallbackMiss
    \/ AppendBlock

Spec == Init /\ [][Next]_vars

\* mine on its own: any candidate, any difficulty d >= 1 up to a target
\* longer than a digest, any max_iters up to the default
MineCandidates ==
    { Block(i, t, p, [author |-> Str_Student, text |-> <<"a">>, ts |-> t], n) :
        i \in {0, 1}, t \in 0..MaxTime, p \in {Sentinel, ToHex(5)}, n \in {0, 1, 3} }

InitMine ==
    /\ chain = <<>>
    /\ sealed = <<>>
    /\ pc = "call"
    /\ blk \in MineCandidates
    /\ call = blk
    /\ zeros \in 1..(HashLen + 2)
    /\ max_iters \in 0..MaxIters
    /\ iters = 0
    /\ target = <<>>
    /\ h = <<>>
    /\ prev_hash = <<>>
    /\ msg = "none"
    /\ ok = FALSE
    /\ clock = 0

\* the loop is a running piece of code: it takes its next step
SpecMine == InitMine /\ [][MineNext]_vars /\ WF_vars(MineNext)

(* ------------------------------- claims ------------------------------- *)
\* every chain of the session is on display in such a state: right after its
\* last block was appended, or while it holds the genesis block alone (the
\* chain does not change in between)
ChainJustBuilt == pc = "idle" /\ (msg = "added" \/ Len(chain) = 1)

\* C1: every chain made by create_chain and successful appends, each with a
\* non-empty text and any selectable difficulty, is accepted by validate.
C1_ReachableChainsValid == ChainJustBuilt => valid_chain(chain)

\* the validator of section 4.5: block 0 against the genesis rule, every
\* later block against the recomputed hash of its predecessor and d zeros
RefBlockOk(c, i, d) ==
    IF i = 1
    THEN c[i].prev = Sentinel /\ StartsWith(Hash(c[i]), Repeat0(2))
    ELSE c[i].prev = Hash(c[i - 1]) /\ StartsWith(Hash(c[i]), Repeat0(d))

RefValid(c, d) == c # <<>> /\ \A i \in 1..Len(c) : RefBlockOk(c, i, d)

\* C2: is_valid agrees with the reference predicate taken at the chain's
\* configured difficulty, the one append_entry mines with: in the run that
\* appended a block at difficulty zeros, the validity shown is the
\* reference's at that difficulty.
C2_AgreesWithReference ==
    (pc = "idle" /\ msg = "added") => (ok = RefValid(chain, zeros))

\* the values a tampering hand may write
TamperNonces == 0..MaxIters
TamperTimes == 0..MaxTime
TamperStrings == {<<"b">>}

\* P holds of every block that differs from b in the payload, the timestamp
\* or the nonce alone
AllEdits(b, P(_)) ==
    /\ \A n \in TamperNonces : n # b.nonce => P([b EXCEPT !.nonce = n])
    /\ \A t \in TamperTimes : t # b.ts => P([b EXCEPT !.ts = t])
    /\ \A t \in TamperTimes : t # b.entry.ts => P([b EXCEPT !.entry.ts = t])
    /\ \A x \in TamperStrings :
          /\ x # b.entry.text => P([b EXCEPT !.entry.text = x])
          /\ x # b.entry.author => P([b EXCEPT !.entry.author = x])

\* P holds of some such block
SomeEdit(b, P(_)) == ~AllEdits(b, LAMBDA e : ~P(e))

\* C3 as stated: on a chain is_valid accepts, a change of the payload, the
\* timestamp or the nonce of any one block makes is_valid return false.
C3_AnyEditDetected ==
    (ChainJustBuilt /\ valid_chain(chain)) =>
        \A i \in 1..Len(chain) :
            AllEdits(chain[i], LAMBDA b : ~valid_chain([chain EXCEPT ![i] = b]))

\* the zeros the validator asks of the block at position i
RequiredZeros(i) == IF i = 1 THEN 2 ELSE DIFFICULTY_ZEROS

\* C3 amended: a change that changes the block's hash is detected in every
\* block that has a successor; in the tip it is detected exactly when the
\* changed block's hash no longer starts with the zeros the validator asks.
C3_EditDetectedBySuccessor ==
    (ChainJustBuilt /\ valid_chain(chain)) =>
        \A i \in 1..Len(chain) :
            AllEdits(chain[i], LAMBDA b :
                Hash(b) # Hash(chain[i]) =>
                    IF i < Len(chain)
                    THEN ~valid_chain([chain EXCEPT ![i] = b])
                    ELSE valid_chain([chain EXCEPT ![i] = b])
                           = StartsWith(Hash(b), Repeat0(RequiredZeros(i))))

\* a valid chain with an interior block, and a tip that can be mined again
C3_Witness ==
    /\ ChainJustBuilt
    /\ Len(chain) = 3
    /\ valid_chain(chain)
    /\ SomeEdit(chain[3], LAMBDA b :
          Hash(b) # Hash(chain[3]) /\ valid_chain([chain EXCEPT ![3] = b]))
    /\ SomeEdit(chain[2], LAMBDA b : Hash(b) # Hash(chain[2]))

\* C4 as stated: the genesis hash starts with 2 zeros and every later
\* block's hash starts with as many zeros as the difficulty it was appended
\* with, whichever mining phase accepted it.
C4_HashMeetsDifficulty ==
    ChainJustBuilt => \A i \in 1..Len(chain) :
        StartsWith(Hash(chain[i]), Repeat0(sealed[i].zeros))

\* C4 amended: a block the primary phase accepted starts with the zeros of
\* its difficulty d, a block the fallback phase accepted with max(d - 1, 1)
\* zeros, and the genesis block with 2.
C4_HashMeetsPhaseTarget ==
    ChainJustBuilt => \A i \in 1..Len(chain) :
        StartsWith(Hash(chain[i]),
                   Repeat0(IF sealed[i].phase = "fallback"
                           THEN Max(sealed[i].zeros - 1, 1)
                           ELSE sealed[i].zeros))

\* a block the fallback phase accepted below its difficulty, after a block
\* the primary phase accepted
C4_Witness ==
    /\ Len(chain) = 3
    /\ sealed[2].phase = "primary"
    /\ sealed[3].phase = "fallback"
    /\ ~StartsWith(Hash(chain[3]), Repeat0(sealed[3].zeros))

\* C5: the hash mine returns starts with d zeros when the primary phase
\* returns it and with max(d - 1, 1) zeros when the fallback phase does.
C5_ReturnMeetsTarget ==
    /\ pc = "return_primary" => StartsWith(h, Repeat0(zeros))
    /\ pc = "return_fallback" => StartsWith(h, Repeat0(Max(zeros - 1, 1)))

\* the fallback phase returns a hash below the difficulty asked
C5_Witness ==
    /\ pc = "return_fallback"
    /\ zeros >= 2
    /\ ~StartsWith(h, Repeat0(zeros))

\* C6: a successful append to a chain of length n gives length n + 1, the
\* new block is the tip, its index is n, and its previous_hash is the hash
\* the former tip had when the handler read it and still has afterwards.
C6_Linkage ==
    [][ /\ (pc = "idle" /\ pc' = "call") => prev_hash' = Hash(chain[Len(chain)])
        /\ (pc # "idle" /\ ~Returned) => (chain' = chain \/ chain = <<>>)
        /\ (pc # "idle") => prev_hash' = prev_hash
        /\ (chain # <<>> /\ chain' # chain) =>
              LET n == Len(chain)
              IN  /\ Returned
                  /\ Len(chain') = n + 1
                  /\ SubSeq(chain', 1, n) = chain
                  /\ chain'[n + 1] = blk
                  /\ chain'[n + 1].index = n
                  /\ chain'[n + 1].prev = prev_hash
                  /\ Hash(chain'[n]) = prev_hash ]_vars

\* a block appended to a chain that already held an appended block
C6_Witness == pc = "idle" /\ msg = "added" /\ Len(chain) = 3

\* C7: the genesis block has index 0, the sentinel as previous_hash and a
\* hash that starts with 2 zeros whatever the configured difficulty, and the
\* validator accepts the one-block chain under every configured difficulty.
C7_Genesis ==
    ChainJustBuilt =>
        /\ chain[1].index = 0
        /\ chain[1].prev = Sentinel
        /\ StartsWith(Hash(chain[1]), Repeat0(2))
        /\ Len(chain) = 1 =>
              /\ valid_chain(chain)
              /\ \A d \in Difficulties : RefValid(chain, d)

\* the one-block chain, found after a search, validated by the button
C7_Witness ==
    pc = "idle" /\ Len(chain) = 1 /\ msg = "valid" /\ ok /\ blk.nonce > 0

\* a text that is empty or holds whitespace only
IsBlank(t) == \A i \in 1..Len(t) : t[i] = " "

\* C8: "Add" with an empty or whitespace-only text shows the input error,
\* computes no hash, starts no mining and leaves the chain as it was.
C8_BlankRejected ==
    [][ pc = "idle" =>
          \A t \in {x \in Texts : IsBlank(x)} :
              (AddRejected(t)
                 \/ \E d \in Difficulties : \E a \in Authors : AddAccepted(d, a, t))
              => /\ msg' = "error"
                 /\ pc' = "idle"
                 /\ UNCHANGED <<chain, sealed, blk, prev_hash, h, iters, target,
                                zeros, max_iters, clock, call>> ]_vars

\* the error shown on a chain that holds appended blocks
C8_Witness == msg = "error" /\ Len(chain) = 3

C10_MineFrame ==
    /\ blk.index = call.index
    /\ blk.prev = call.prev
    /\ blk.entry = call.entry

\* mine returns after it changed both the nonce and the timestamp
C10_Witness == Returned /\ blk.nonce # call.nonce /\ blk.ts # call.ts

\* C11: once the chain exists its length never decreases, every block in it
\* keeps its five field values in every step (mining a candidate included),
\* the chain changes only when mine has returned, and the step that follows a
\* return of mine makes it longer by exactly one.
C11_AppendOnly ==
    [][ chain # <<>> =>
          /\ Len(chain') >= Len(chain)
          /\ SubSeq(chain', 1, Len(chain)) = chain
          /\ (Returned /\ pc' = "idle") => Len(chain') = Len(chain) + 1
          /\ ~Returned => chain' = chain ]_vars

\* a candidate is being mined, past its first nonce, on a chain that already
\* holds an appended block
C11_Witness == pc = "fallback" /\ Len(chain) = 2 /\ blk.nonce > 0

\* the index values that may be written into a block
TamperIndexes == 0..MaxBlocks

\* C12 as stated: in any chain is_valid accepts the block at position i has
\* index i; taken over the chains that differ from a chain of the session in
\* the index of one block.
C12_AcceptedImpliesGapless ==
    ChainJustBuilt =>
        \A i \in 1..Len(chain) : \A k \in TamperIndexes :
            LET c == [chain EXCEPT ![i].index = k]
            IN  valid_chain(c) => \A j \in 1..Len(c) : c[j].index = j - 1

\* C12 amended: in every chain create_chain and append_entry build, accepted
\* by is_valid or not, the block at position i has index i, and the candidate
\* being mined has the index of the position it will take.
C12_BuiltChainGapless ==
    /\ \A j \in 1..Len(chain) : chain[j].index = j - 1
    /\ (chain # <<>> /\ pc \notin {"idle", "genesis"}) => blk.index = Len(chain)

\* a chain of three blocks that the validator rejects
C12_Witness == pc = "idle" /\ Len(chain) = 3 /\ msg = "added" /\ ~ok

\* C13: a run that calls is_valid and appends nothing (the "Validate chain"
\* button, the metric of a run without an accepted text) leaves the chain as
\* it was, whether is_valid accepts it or not, and shows is_valid's result.
C13_ValidateReadOnly ==
    [][ (pc = "idle" /\ pc' = "idle") =>
          /\ chain' = chain
          /\ ok' = valid_chain(chain)
          /\ msg' \in {"valid", "invalid"} => (msg' = "valid") = valid_chain(chain) ]_vars

\* the button has reported a chain of three blocks invalid
C13_Witness ==
    pc = "idle" /\ msg = "invalid" /\ Len(chain) = 3 /\ ~valid_chain(chain)

\* C14: the primary phase tests the difficulty d on nonce 0, 1, ... (the
\* nonce is the number of attempts made), moves on only from a failed attempt
\* and for at most max_iterations attempts; the fallback phase is entered
\* from the nonce max_iterations with the candidate as the primary phase left
\* it, tests max(d - 1, 1) and goes on from there; a return with a nonce
\* below max_iterations is a return of the primary phase with d zeros.
C14_TwoPhase ==
    /\ [] ( /\ pc = "primary" =>
                  /\ iters = blk.nonce
                  /\ iters <= max_iters
                  /\ target = Repeat0(zeros)
            /\ pc = "fallback" =>
                  /\ blk.nonce >= max_iters
                  /\ target = Repeat0(Max(zeros - 1, 1))
            /\ (Returned /\ blk.nonce < max_iters) =>
                  /\ pc = "return_primary"
                  /\ StartsWith(h, Repeat0(zeros)) )
    /\ [][ /\ (pc = "primary" /\ pc' = "primary") =>
                  /\ ~StartsWith(Hash(blk), Repeat0(zeros))
                  /\ blk'.nonce = blk.nonce + 1
           /\ (pc = "primary" /\ pc' = "fallback") =>
                  /\ blk.nonce = max_iters
                  /\ blk' = blk
           /\ (pc = "fallback" /\ pc' = "fallback") =>
                  /\ ~StartsWith(Hash(blk), Repeat0(Max(zeros - 1, 1)))
                  /\ blk'.nonce = blk.nonce + 1 ]_vars

\* the fallback phase returns beyond the nonce at which it took over from a
\* primary phase that made attempts
C14_Witness == pc = "return_fallback" /\ max_iters > 0 /\ blk.nonce > max_iters

\* C15: the hash mine returns is the hash of the candidate as mine leaves
\* it, and the hash the validator computes from the appended block is that
\* same value, also after a timestamp refresh during the search.
C15_ReturnedHashIsBlockHash ==
    /\ Returned => h = Hash(blk)
    /\ (pc = "idle" /\ msg = "added") =>
          /\ chain[Len(chain)] = blk
          /\ Hash(chain[Len(chain)]) = h

\* a block appended after a refresh changed its timestamp during the search
C15_Witness ==
    /\ pc = "idle"
    /\ msg = "added"
    /\ chain[Len(chain)].ts # call.ts
    /\ chain[Len(chain)].nonce >= RefreshEvery

\* mine is inside one of its two loops
InMine == pc \in {"primary", "fallback"}

\* C16: in both loops a failed attempt that brings the number of failed
\* attempts (the nonce) to a positive multiple of the refresh period sets the
\* timestamp to the time read then; no other step of mine changes the
\* timestamp or reads the time; a return below the refresh period has the
\* timestamp of the call.
C16_RefreshSchedule ==
    /\ [][ /\ InMine =>
                  IF blk'.nonce # blk.nonce /\ blk'.nonce % RefreshEvery = 0
                  THEN blk'.nonce > 0 /\ blk'.ts = clock'
                  ELSE blk'.ts = blk.ts /\ clock' = clock
           /\ pc = "call" => (blk'.ts = blk.ts /\ clock' = clock) ]_vars
    /\ [] ( /\ pc = "primary" => blk.nonce = iters
            /\ (Returned /\ blk.nonce < RefreshEvery) => blk.ts = call.ts )

\* a return after two refreshes, the timestamp no longer the one of the call
C16_Witness ==
    /\ pc = "return_fallback"
    /\ blk.nonce >= 2 * RefreshEvery
    /\ blk.ts = clock
    /\ blk.ts # call.ts

\* the attempt with nonce n on the candidate as it was passed to mine
HitAt(n) == StartsWith(Hash([call EXCEPT !.nonce = n]), Repeat0(zeros))

\* C17: a return of the primary phase before any refresh leaves the candidate
\* as it arrived but for the nonce, which is the least n >= 0 whose hash
\* starts with d zeros, whatever nonce the candidate arrived with; a
\* candidate that arrives with that nonce is returned unchanged.
C17_LeastNonce ==
    (pc = "return_primary" /\ blk.nonce < RefreshEvery) =>
        /\ blk = [call EXCEPT !.nonce = blk.nonce]
        /\ HitAt(blk.nonce)
        /\ \A m \in 0..(blk.nonce - 1) : ~HitAt(m)
        /\ h = Hash(blk)
        /\ (HitAt(call.nonce) /\ \A m \in 0..(call.nonce - 1) : ~HitAt(m)) =>
              blk = call

\* a block that arrives mined, with a nonce above 0, is returned as it came
C17_Witness == pc = "return_primary" /\ call.nonce = 1 /\ blk = call

=============================================================================
